---- MODULE Spec2Model ----
(***************************************************************************)
(* CivicLens complaint triage: keyword scoring, severity and priority,     *)
(* time-driven escalation, officer assignment and duplicate linking.       *)
(*                                                                         *)
(* Conventions of the model                                                *)
(*   - scores (urgency, severity, boosts) are integers in thousandths:     *)
(*     0.3 is 300, 1.0 is 1000;                                            *)
(*   - time is a clock `now` in whole hours; a timestamp column that is    *)
(*     NULL is NoTime; a foreign key that is NULL is None;                 *)
(*   - a text is the set of the words it contains; KeywordsIn gives the    *)
(*     keywords that are substrings of a word, so `kw in text_lower` is    *)
(*     Occurs(kw, text);                                                   *)
(*   - the row of table complaints with primary key i is complaints[i];    *)
(*     it holds the columns the operations below read or write.           *)
(***************************************************************************)
EXTENDS Integers, Sequences, FiniteSets, TLC

\* ---------------------------------------------------------------- bounds
\* rows the complaints table may hold
MaxComplaints == 1
\* how many times the clock advances, and by how many hours
MaxTicks == 4
ServiceTickHours == 73
\* the same bounds for the escalation machine taken alone
MaxEscComplaints == 2
MaxEscTicks == 3
TickHours == 72
\* duplicates submitted of one complaint
MaxDuplicates == 3
\* rows of the complaints table the officers of one department share
MaxAssignComplaints == 5
\* complaints submitted where submission is taken alone
MaxAIComplaints == 1

None == 0
NoTime == -1
\* a department column that is NULL
NoDepartment == ""

\* ------------------------------------------------------------- AI service

urgency_keywords ==
    [critical |-> {"emergency", "urgent", "danger", "life threatening", "fire",
                   "accident", "flood", "collapsed", "explosion", "gas leak",
                   "electrocution", "drowning", "death", "injured"},
     high     |-> {"immediate", "severe", "major", "broken", "blocked",
                   "overflow", "leakage", "exposure", "hazard", "risk",
                   "children", "elderly", "disabled", "hospital", "school"},
     medium   |-> {"damaged", "poor", "problem", "issue", "concern",
                   "inconvenience", "delay", "irregular", "complaint"},
     low      |-> {"minor", "small", "slight", "cosmetic", "suggestion",
                   "improvement", "future", "eventually"}]

\* iteration order of the category_keywords dict
CategoryOrder ==
    <<"roads", "water", "sanitation", "safety", "electricity",
      "public_transport", "environment">>

category_keywords ==
    [roads |-> {"road", "pothole", "street", "highway", "pavement", "sidewalk",
                "traffic", "signal", "footpath", "crossing", "bridge", "asphalt"},
     water |-> {"water", "pipeline", "tap", "supply", "drinking", "tank",
                "bore", "well", "pump", "contaminated", "dirty water"},
     sanitation |-> {"garbage", "waste", "sewage", "drain", "toilet", "trash",
                "cleaning", "dustbin", "sweeping", "stench", "smell", "hygiene"},
     safety |-> {"crime", "theft", "robbery", "harassment", "police", "security",
                "unsafe", "dark", "lighting", "cctv", "patrol", "violence"},
     electricity |-> {"power", "electric", "outage", "blackout", "transformer",
                "wire", "cable", "meter", "voltage", "short circuit", "pole"},
     public_transport |-> {"bus", "metro", "train", "transport", "station", "stop",
                "schedule", "route", "ticket", "fare", "overcrowded"},
     environment |-> {"tree", "park", "pollution", "noise", "air quality", "green",
                "garden", "plant", "animal", "stray", "mosquito", "pest"}]

\* self.categories: the labels a user-declared category may take
categories ==
    {"roads", "water", "sanitation", "safety", "electricity",
     "public_transport", "environment", "other"}

\* the words texts are made of
Vocabulary ==
    {"gas leak", "overflowing", "garbage", "dustbin", "school", "street",
     "minor", "problem"}

\* the keywords of the two tables that are substrings of a word
KeywordsIn(word) ==
    CASE word = "overflowing" -> {"overflow"}
      [] word = "street"      -> {"street", "tree"}
      [] OTHER                -> {word}

\* `kw in text_lower`
Occurs(kw, text) ==
    \E word \in text : kw \in KeywordsIn(word)

\* sum(1 for kw in keywords if kw in text_lower)
Hits(keywords, text) ==
    Cardinality({kw \in keywords : Occurs(kw, text)})

RECURSIVE GCD(_, _)
GCD(a, b) ==
    IF b = 0 THEN a ELSE GCD(b, a % b)

\* round(x, 3) of x = num/den, den > 0: the nearest thousandth, a tie to the
\* even one; the fraction is reduced first to keep the products small
Round3(num, den) ==
    LET n == num \div GCD(num, den)
        d == den \div GCD(num, den)
        q == (1000 * n) \div d
        r == (1000 * n) % d
    IN  IF 2 * r > d THEN q + 1
        ELSE IF 2 * r < d THEN q
        ELSE IF q % 2 = 0 THEN q ELSE q + 1

Min(a, b) ==
    IF a <= b THEN a ELSE b

\* Defective variants of calculate_keyword_urgency.
\* - a critical keyword is weighed with the others
calculate_keyword_urgency_weighing_critical(text) ==
    LET critical_count == Hits(urgency_keywords.critical, text)
        high_count     == Hits(urgency_keywords.high, text)
        medium_count   == Hits(urgency_keywords.medium, text)
        low_count      == Hits(urgency_keywords.low, text)
        score == critical_count * 10 + high_count * 7
                 + medium_count * 4 + low_count * 1
        total == critical_count + high_count + medium_count + low_count
    IN  IF total > 0
        THEN IF score <= 10 * total
             THEN [num |-> score, den |-> 10 * total]
             ELSE [num |-> 1, den |-> 1]
        ELSE [num |-> 3, den |-> 10]

\* - the score is not divided by the number of hits
calculate_keyword_urgency_undivided(text) ==
    IF \E kw \in urgency_keywords.critical : Occurs(kw, text)
    THEN [num |-> 1, den |-> 1]
    ELSE LET high_count     == Hits(urgency_keywords.high, text)
             medium_count   == Hits(urgency_keywords.medium, text)
             low_count      == Hits(urgency_keywords.low, text)
             score == high_count * 7 + medium_count * 4 + low_count * 1
             total == high_count + medium_count + low_count
         IN  IF total > 0
             THEN IF score <= 10
                  THEN [num |-> score, den |-> 10]
                  ELSE [num |-> 1, den |-> 1]
             ELSE [num |-> 3, den |-> 10]

\* calculate_keyword_urgency: the urgency as the fraction num/den
calculate_keyword_urgency(text) ==
    IF \E kw \in urgency_keywords.critical : Occurs(kw, text)
    THEN [num |-> 1, den |-> 1]
    ELSE LET critical_count == Hits(urgency_keywords.critical, text)
             high_count     == Hits(urgency_keywords.high, text)
             medium_count   == Hits(urgency_keywords.medium, text)
             low_count      == Hits(urgency_keywords.low, text)
             \* score in tenths
             score == critical_count * 10 + high_count * 7
                      + medium_count * 4 + low_count * 1
             total == critical_count + high_count + medium_count + low_count
         IN  IF total > 0
             THEN IF score <= 10 * total
                  THEN [num |-> score, den |-> 10 * total]
                  ELSE [num |-> 1, den |-> 1]
             ELSE [num |-> 3, den |-> 10]

\* calculate_location_importance: the placeholder 0.5
calculate_location_importance ==
    [num |-> 5, den |-> 10]

\* get_nearby_complaint_factor: the placeholder 0.3
get_nearby_complaint_factor ==
    [num |-> 3, den |-> 10]

\* Config.SEVERITY_WEIGHTS, in tenths
SEVERITY_WEIGHTS ==
    [keyword_urgency |-> 3, nearby_complaints |-> 2,
     time_unresolved |-> 2, location_importance |-> 3]

\* A defective variant of calculate_severity_score: the time factor is not
\* capped at 1.0.
calculate_severity_score_time_uncapped(text, time_unresolved_hours) ==
    LET weights == SEVERITY_WEIGHTS
        k == calculate_keyword_urgency(text)
        l == calculate_location_importance
        n == get_nearby_complaint_factor
        t == [num |-> time_unresolved_hours, den |-> 168]
        den == 10 * k.den * n.den * t.den * l.den
        num == weights.keyword_urgency * k.num * n.den * t.den * l.den
               + weights.nearby_complaints * n.num * k.den * t.den * l.den
               + weights.time_unresolved * t.num * k.den * n.den * l.den
               + weights.location_importance * l.num * k.den * n.den * t.den
    IN  IF num >= den THEN 1000 ELSE Round3(num, den)

\* calculate_severity_score, in thousandths
calculate_severity_score(text, time_unresolved_hours) ==
    LET weights == SEVERITY_WEIGHTS
        k == calculate_keyword_urgency(text)
        l == calculate_location_importance
        n == get_nearby_complaint_factor
        \* time_factor = min(hours / 168, 1.0)
        t == [num |-> Min(time_unresolved_hours, 168), den |-> 168]
        den == 10 * k.den * n.den * t.den * l.den
        num == weights.keyword_urgency * k.num * n.den * t.den * l.den
               + weights.nearby_complaints * n.num * k.den * t.den * l.den
               + weights.time_unresolved * t.num * k.den * n.den * l.den
               + weights.location_importance * l.num * k.den * n.den * t.den
    IN  IF num >= den THEN 1000 ELSE Round3(num, den)

\* A defective variant of get_priority_from_score: a score on a boundary
\* falls in the lower tier.
get_priority_from_score_exclusive(severity_score) ==
    IF severity_score > 800 THEN "critical"
    ELSE IF severity_score > 600 THEN "high"
    ELSE IF severity_score > 400 THEN "medium"
    ELSE "low"

\* get_priority_from_score, of a score in thousandths
get_priority_from_score(severity_score) ==
    IF severity_score >= 800 THEN "critical"
    ELSE IF severity_score >= 600 THEN "high"
    ELSE IF severity_score >= 400 THEN "medium"
    ELSE "low"

\* category_scores of classify_category: the hit count of each category
category_score(category, text) ==
    Hits(category_keywords[category], text)

\* A defective variant of classify_category: the confidence is not capped.
classify_category_uncapped(text) ==
    LET scored == {i \in DOMAIN CategoryOrder :
                      category_score(CategoryOrder[i], text) > 0}
    IN  IF scored # {}
        THEN LET best == CHOOSE i \in scored :
                            \A j \in scored :
                               \/ category_score(CategoryOrder[j], text)
                                    < category_score(CategoryOrder[i], text)
                               \/ /\ category_score(CategoryOrder[j], text)
                                       = category_score(CategoryOrder[i], text)
                                  /\ i <= j
                 max_score == category_score(CategoryOrder[best], text)
                 total_score == LET add[k \in 0..Len(CategoryOrder)] ==
                                       IF k = 0 THEN 0
                                       ELSE add[k - 1]
                                            + category_score(CategoryOrder[k], text)
                                IN  add[Len(CategoryOrder)]
             IN  [category |-> CategoryOrder[best],
                  confidence |-> [num |-> max_score, den |-> total_score]]
        ELSE [category |-> "other", confidence |-> [num |-> 3, den |-> 10]]

\* classify_category: the first category, in the table's order, whose hit
\* count is the maximum; confidence min(max_score / total_score, 0.9) as the
\* fraction num/den
classify_category(text) ==
    LET scored == {i \in DOMAIN CategoryOrder :
                      category_score(CategoryOrder[i], text) > 0}
    IN  IF scored # {}
        THEN LET best == CHOOSE i \in scored :
                            \A j \in scored :
                               \/ category_score(CategoryOrder[j], text)
                                    < category_score(CategoryOrder[i], text)
                               \/ /\ category_score(CategoryOrder[j], text)
                                       = category_score(CategoryOrder[i], text)
                                  /\ i <= j
                 max_score == category_score(CategoryOrder[best], text)
                 total_score == LET add[k \in 0..Len(CategoryOrder)] ==
                                       IF k = 0 THEN 0
                                       ELSE add[k - 1]
                                            + category_score(CategoryOrder[k], text)
                                IN  add[Len(CategoryOrder)]
             IN  [category |-> CategoryOrder[best],
                  confidence |-> IF 10 * max_score <= 9 * total_score
                                 THEN [num |-> max_score, den |-> total_score]
                                 ELSE [num |-> 9, den |-> 10]]
        ELSE [category |-> "other", confidence |-> [num |-> 3, den |-> 10]]

\* A defective variant of process_complaint: it scores the complaint as one
\* a week unresolved.
process_complaint_a_week_old(text, category) ==
    LET ai == classify_category(text)
        final_category == IF category \in categories THEN category ELSE ai.category
        severity_score == calculate_severity_score(text, 168)
    IN  [category |-> final_category,
         ai_category |-> ai.category,
         confidence |-> Round3(ai.confidence.num, ai.confidence.den),
         severity_score |-> severity_score,
         priority |-> get_priority_from_score(severity_score)]

\* process_complaint(text, category): scored with zero hours unresolved
process_complaint(text, category) ==
    LET ai == classify_category(text)
        final_category == IF category \in categories THEN category ELSE ai.category
        severity_score == calculate_severity_score(text, 0)
    IN  [category |-> final_category,
         ai_category |-> ai.category,
         confidence |-> Round3(ai.confidence.num, ai.confidence.den),
         severity_score |-> severity_score,
         priority |-> get_priority_from_score(severity_score)]

\* --------------------------------------------------------- complaint service

CATEGORY_DEPARTMENT_MAP ==
    [roads |-> "Public Works Department",
     water |-> "Water Supply Department",
     sanitation |-> "Sanitation Department",
     safety |-> "Public Safety Department",
     electricity |-> "Electricity Department",
     public_transport |-> "Transport Department",
     environment |-> "Environment Department",
     other |-> "General Administration"]

get_department_for_category(category) ==
    IF category \in DOMAIN CATEGORY_DEPARTMENT_MAP
    THEN CATEGORY_DEPARTMENT_MAP[category]
    ELSE "General Administration"

\* thresholds.get(complaint.priority, 72) of check_escalation, in hours
\* A defective variant of threshold_hours: a priority outside the four takes
\* the longest threshold.
threshold_hours_low_default(priority) ==
    CASE priority = "critical" -> 4
      [] priority = "high"     -> 24
      [] priority = "medium"   -> 72
      [] OTHER                 -> 168

threshold_hours(priority) ==
    CASE priority = "critical" -> 4
      [] priority = "high"     -> 24
      [] priority = "medium"   -> 72
      [] priority = "low"      -> 168
      [] OTHER                 -> 72

\* Defective variants of check_escalation, kept to show that the escalation
\* properties below tell them from the code.
\* - it does not return early on a resolved or closed complaint
check_escalation_any_status(complaint, t) ==
    LET hours_pending == t - complaint.created_at
    IN  IF /\ hours_pending > threshold_hours(complaint.priority)
           /\ complaint.escalation_level = 0
        THEN [complaint |-> [complaint EXCEPT !.escalation_level = 1,
                                              !.escalated_at = t],
              ret |-> TRUE]
        ELSE IF /\ hours_pending > threshold_hours(complaint.priority) * 2
                /\ complaint.escalation_level = 1
        THEN [complaint |-> [complaint EXCEPT !.escalation_level = 2],
              ret |-> TRUE]
        ELSE [complaint |-> complaint, ret |-> FALSE]

\* - it tests the second level against the threshold, not twice the threshold
check_escalation_one_threshold(complaint, t) ==
    LET hours_pending == t - complaint.created_at
    IN  IF complaint.status \in {"resolved", "closed"}
        THEN [complaint |-> complaint, ret |-> FALSE]
        ELSE IF /\ hours_pending > threshold_hours(complaint.priority)
                /\ complaint.escalation_level = 0
        THEN [complaint |-> [complaint EXCEPT !.escalation_level = 1,
                                              !.escalated_at = t],
              ret |-> TRUE]
        ELSE IF /\ hours_pending > threshold_hours(complaint.priority)
                /\ complaint.escalation_level = 1
        THEN [complaint |-> [complaint EXCEPT !.escalation_level = 2],
              ret |-> TRUE]
        ELSE [complaint |-> complaint, ret |-> FALSE]

\* - it escalates at the threshold, not past it
check_escalation_at_threshold(complaint, t) ==
    LET hours_pending == t - complaint.created_at
    IN  IF complaint.status \in {"resolved", "closed"}
        THEN [complaint |-> complaint, ret |-> FALSE]
        ELSE IF /\ hours_pending >= threshold_hours(complaint.priority)
                /\ complaint.escalation_level = 0
        THEN [complaint |-> [complaint EXCEPT !.escalation_level = 1,
                                              !.escalated_at = t],
              ret |-> TRUE]
        ELSE IF /\ hours_pending > threshold_hours(complaint.priority) * 2
                /\ complaint.escalation_level = 1
        THEN [complaint |-> [complaint EXCEPT !.escalation_level = 2],
              ret |-> TRUE]
        ELSE [complaint |-> complaint, ret |-> FALSE]

\* - it measures the second level from escalated_at, not from created_at
check_escalation_since_escalated(complaint, t) ==
    LET hours_pending == t - complaint.created_at
    IN  IF complaint.status \in {"resolved", "closed"}
        THEN [complaint |-> complaint, ret |-> FALSE]
        ELSE IF /\ hours_pending > threshold_hours(complaint.priority)
                /\ complaint.escalation_level = 0
        THEN [complaint |-> [complaint EXCEPT !.escalation_level = 1,
                                              !.escalated_at = t],
              ret |-> TRUE]
        ELSE IF /\ t - complaint.escalated_at
                      > threshold_hours(complaint.priority) * 2
                /\ complaint.escalation_level = 1
        THEN [complaint |-> [complaint EXCEPT !.escalation_level = 2],
              ret |-> TRUE]
        ELSE [complaint |-> complaint, ret |-> FALSE]

\* - it has a third level, past three times the threshold
check_escalation_three_levels(complaint, t) ==
    LET hours_pending == t - complaint.created_at
    IN  IF complaint.status \in {"resolved", "closed"}
        THEN [complaint |-> complaint, ret |-> FALSE]
        ELSE IF /\ hours_pending > threshold_hours(complaint.priority)
                /\ complaint.escalation_level = 0
        THEN [complaint |-> [complaint EXCEPT !.escalation_level = 1,
                                              !.escalated_at = t],
              ret |-> TRUE]
        ELSE IF /\ hours_pending > threshold_hours(complaint.priority) * 2
                /\ complaint.escalation_level = 1
        THEN [complaint |-> [complaint EXCEPT !.escalation_level = 2],
              ret |-> TRUE]
        ELSE IF /\ hours_pending > threshold_hours(complaint.priority) * 3
                /\ complaint.escalation_level = 2
        THEN [complaint |-> [complaint EXCEPT !.escalation_level = 3],
              ret |-> TRUE]
        ELSE [complaint |-> complaint, ret |-> FALSE]

\* - it does not return after the first level, so that one call takes a
\*   complaint past twice its threshold from level 0 to level 2
check_escalation_falling_through(complaint, t) ==
    LET hours_pending == t - complaint.created_at
    IN  IF complaint.status \in {"resolved", "closed"}
        THEN [complaint |-> complaint, ret |-> FALSE]
        ELSE IF /\ hours_pending > threshold_hours(complaint.priority) * 2
                /\ complaint.escalation_level \in {0, 1}
        THEN [complaint |-> [complaint EXCEPT
                                !.escalation_level = 2,
                                !.escalated_at =
                                    IF complaint.escalation_level = 0
                                    THEN t ELSE @],
              ret |-> TRUE]
        ELSE IF /\ hours_pending > threshold_hours(complaint.priority)
                /\ complaint.escalation_level = 0
        THEN [complaint |-> [complaint EXCEPT !.escalation_level = 1,
                                              !.escalated_at = t],
              ret |-> TRUE]
        ELSE [complaint |-> complaint, ret |-> FALSE]

\* check_escalation(complaint) at time t: the complaint as it leaves it, and
\* the value returned
check_escalation(complaint, t) ==
    LET hours_pending == t - complaint.created_at
    IN  IF complaint.status \in {"resolved", "closed"}
        THEN [complaint |-> complaint, ret |-> FALSE]
        ELSE IF /\ hours_pending > threshold_hours(complaint.priority)
                /\ complaint.escalation_level = 0
        THEN [complaint |-> [complaint EXCEPT !.escalation_level = 1,
                                              !.escalated_at = t],
              ret |-> TRUE]
        ELSE IF /\ hours_pending > threshold_hours(complaint.priority) * 2
                /\ complaint.escalation_level = 1
        THEN [complaint |-> [complaint EXCEPT !.escalation_level = 2],
              ret |-> TRUE]
        ELSE [complaint |-> complaint, ret |-> FALSE]

\* A defective variant of pending: the rows of status pending alone.
pending_not_in_progress(table) ==
    {i \in DOMAIN table : table[i].status = "pending"}

\* the rows run_escalation_check queries: status pending or in_progress
pending(table) ==
    {i \in DOMAIN table : table[i].status \in {"pending", "in_progress"}}

\* A defective variant of run_escalation_check: it counts the complaints it
\* examined, not those check_escalation escalated.
run_escalation_check_counting_examined(table, t) ==
    [complaints |-> [i \in DOMAIN table |->
                        IF i \in pending(table)
                        THEN check_escalation(table[i], t).complaint
                        ELSE table[i]],
     ret |-> Cardinality(pending(table))]

\* run_escalation_check over the table at time t: the table as it leaves it,
\* and escalated_count
run_escalation_check(table, t) ==
    [complaints |-> [i \in DOMAIN table |->
                        IF i \in pending(table)
                        THEN check_escalation(table[i], t).complaint
                        ELSE table[i]],
     ret |-> Cardinality({i \in pending(table) :
                             check_escalation(table[i], t).ret})]

\* Complaint.query.filter_by(duplicate_of_id=original.id).count()
duplicate_count(table, original) ==
    Cardinality({i \in DOMAIN table : table[i].duplicate_of_id = original})

\* Defective variants of mark_as_duplicate.
\* - it does not compare the two ids
mark_as_duplicate_no_self_check(table, c, o) ==
    LET linked == [table EXCEPT ![c].is_duplicate = TRUE,
                                ![c].duplicate_of_id = o]
        count == duplicate_count(linked, o)
        boost == Min(count * 100, 300)
    IN  [complaints |->
            IF count > 0
            THEN [linked EXCEPT ![o].severity_score =
                     Min(linked[o].severity_score + boost, 1000)]
            ELSE linked,
         ret |-> TRUE]

\* - it also closes the duplicate
mark_as_duplicate_closing(table, c, o) ==
    IF c = o
    THEN [complaints |-> table, ret |-> FALSE]
    ELSE LET linked == [table EXCEPT ![c].is_duplicate = TRUE,
                                     ![c].duplicate_of_id = o,
                                     ![c].status = "closed"]
             count == duplicate_count(linked, o)
             boost == Min(count * 100, 300)
         IN  [complaints |->
                 IF count > 0
                 THEN [linked EXCEPT ![o].severity_score =
                          Min(linked[o].severity_score + boost, 1000)]
                 ELSE linked,
              ret |-> TRUE]

\* - it does not cap the boosted severity at 1.0
mark_as_duplicate_uncapped(table, c, o) ==
    IF c = o
    THEN [complaints |-> table, ret |-> FALSE]
    ELSE LET linked == [table EXCEPT ![c].is_duplicate = TRUE,
                                     ![c].duplicate_of_id = o]
             count == duplicate_count(linked, o)
             boost == Min(count * 100, 300)
         IN  [complaints |->
                 IF count > 0
                 THEN [linked EXCEPT ![o].severity_score =
                          linked[o].severity_score + boost]
                 ELSE linked,
              ret |-> TRUE]

\* mark_as_duplicate(complaint, original_complaint) on rows c and o of the
\* table: the table as it leaves it, and the value returned.  The count query
\* runs after the two assignments to the complaint, which the session flushes
\* before it queries, so the count sees the link just made.
mark_as_duplicate(table, c, o) ==
    IF c = o
    THEN [complaints |-> table, ret |-> FALSE]
    ELSE LET linked == [table EXCEPT ![c].is_duplicate = TRUE,
                                     ![c].duplicate_of_id = o]
             count == duplicate_count(linked, o)
             boost == Min(count * 100, 300)
         IN  [complaints |->
                 IF count > 0
                 THEN [linked EXCEPT ![o].severity_score =
                          Min(linked[o].severity_score + boost, 1000)]
                 ELSE linked,
              ret |-> TRUE]

\* the officers auto_assign_complaint queries, in the order of the query
\* (by primary key)
officers_of(people, department) ==
    {u \in DOMAIN people : /\ people[u].role = "officer"
                           /\ people[u].department = department
                           /\ people[u].is_active}

\* A defective variant of pending_count: it leaves out the complaints that
\* are still pending.
pending_count_in_progress_only(table, officer) ==
    Cardinality({i \in DOMAIN table : /\ table[i].status = "in_progress"
                                      /\ table[i].officer_id = officer})

\* pending_count of an officer
pending_count(table, officer) ==
    Cardinality({i \in pending(table) : table[i].officer_id = officer})

\* the loop of auto_assign_complaint over the officers of the department
\* among users k, k + 1, ..., in the order of the query (by primary key),
\* with min_load and selected_officer as they stand
RECURSIVE select_least_loaded(_, _, _, _, _, _)
select_least_loaded(table, people, department, k, min_load, selected) ==
    IF k > Len(people)
    THEN selected
    ELSE IF /\ k \in officers_of(people, department)
            /\ pending_count(table, k) < min_load
    THEN select_least_loaded(table, people, department, k + 1,
                             pending_count(table, k), k)
    ELSE select_least_loaded(table, people, department, k + 1,
                             min_load, selected)

\* A defective variant of selected_officer: of the officers tied at the
\* least load it takes the last one.
selected_officer_last_tied(table, people, department) ==
    LET officers == officers_of(people, department)
    IN  IF officers = {}
        THEN None
        ELSE CHOOSE u \in officers :
                \A v \in officers :
                   \/ pending_count(table, u) < pending_count(table, v)
                   \/ /\ pending_count(table, u) = pending_count(table, v)
                      /\ u >= v

\* the officer auto_assign_complaint selects; None when the query returns no
\* officer.  min_load starts at float('inf'): above every count.
selected_officer(table, people, department) ==
    IF officers_of(people, department) = {}
    THEN None
    ELSE select_least_loaded(table, people, department, 1,
                             Len(table) + 1, None)

\* A defective variant of auto_assign_complaint: with no officer in the
\* department it falls back on the first active officer of any department.
auto_assign_complaint_with_fallback(table, people, i) ==
    LET department == table[i].department
        active == {u \in DOMAIN people : /\ people[u].role = "officer"
                                         /\ people[u].is_active}
        selected == IF /\ department # NoDepartment
                       /\ officers_of(people, department) # {}
                    THEN selected_officer(table, people, department)
                    ELSE IF active = {} THEN None
                    ELSE CHOOSE u \in active : \A v \in active : u <= v
    IN  [complaints |-> IF selected # None
                        THEN [table EXCEPT ![i].officer_id = selected]
                        ELSE table,
         ret |-> selected]

\* auto_assign_complaint(complaint) on row i of the table: the table as it
\* leaves it, and the officer returned
auto_assign_complaint(table, people, i) ==
    LET department == table[i].department
        selected == IF department = NoDepartment THEN None
                    ELSE selected_officer(table, people, department)
    IN  [complaints |-> IF selected # None
                        THEN [table EXCEPT ![i].officer_id = selected]
                        ELSE table,
         ret |-> selected]

\* ------------------------------------------------------------- analytics
\* Coordinates are integers in units of 0.00001 degree.

\* grid_size = 0.01
grid_size == 1000

\* hotspots[:50]
HotspotLimit == 50

\* A defective variant of grid_index: it cuts the quotient instead of
\* rounding it.
grid_index_floor(value) ==
    value \div grid_size

\* round(value / grid_size): the nearest integer, a tie to the even one
grid_index(value) ==
    LET q == value \div grid_size
        r == value % grid_size
    IN  IF 2 * r > grid_size THEN q + 1
        ELSE IF 2 * r < grid_size THEN q
        ELSE IF q % 2 = 0 THEN q ELSE q + 1

\* the rows the query of get_hotspots returns, in the order of the table:
\* created in the last `days` days and, where a category is asked for, of it
hotspot_query(table, t, days, category) ==
    SelectSeq([i \in 1..Len(table) |-> i],
              LAMBDA i : /\ table[i].created_at >= t - days * 24
                         /\ category = "" \/ table[i].category = category)

\* counts.get(category, 0) + 1 on the dict categories kept as a sequence of
\* [category, n] in the order of insertion
count_category(counts, category) ==
    IF \E k \in DOMAIN counts : counts[k].category = category
    THEN [k \in DOMAIN counts |->
             IF counts[k].category = category
             THEN [counts[k] EXCEPT !.n = @ + 1]
             ELSE counts[k]]
    ELSE Append(counts, [category |-> category, n |-> 1])

\* the clustering loop of get_hotspots over the rows todo, with the dict
\* clusters kept as a sequence in the order of insertion
RECURSIVE cluster_loop(_, _, _)
cluster_loop(table, todo, clusters) ==
    IF todo = <<>>
    THEN clusters
    ELSE LET c == table[Head(todo)]
             grid_lat == grid_index(c.latitude) * grid_size
             grid_lng == grid_index(c.longitude) * grid_size
             known == \E k \in DOMAIN clusters :
                         clusters[k].lat = grid_lat /\ clusters[k].lng = grid_lng
             opened == IF known THEN clusters
                       ELSE Append(clusters,
                                   [lat |-> grid_lat, lng |-> grid_lng,
                                    count |-> 0, avg_severity |-> 0,
                                    categories |-> <<>>])
             added == [k \in DOMAIN opened |->
                          IF opened[k].lat = grid_lat /\ opened[k].lng = grid_lng
                          THEN [opened[k] EXCEPT
                                   !.count = @ + 1,
                                   !.avg_severity = @ + c.severity_score,
                                   !.categories = count_category(@, c.category)]
                          ELSE opened[k]]
         IN  cluster_loop(table, Tail(todo), added)

\* round(x, 2) of x = num/den thousandths, in hundredths
Round2(num, den) ==
    LET q == num \div (10 * den)
        r == num % (10 * den)
    IN  IF 2 * r > 10 * den THEN q + 1
        ELSE IF 2 * r < 10 * den THEN q
        ELSE IF q % 2 = 0 THEN q ELSE q + 1

\* max(categories, key=categories.get): the first category of the highest n
top_category(counts) ==
    LET best == CHOOSE k \in DOMAIN counts :
                   \A j \in DOMAIN counts :
                      \/ counts[j].n < counts[k].n
                      \/ counts[j].n = counts[k].n /\ k <= j
    IN  counts[best].category

\* a cluster as the finalizing loop leaves it
hotspot(cluster) ==
    [lat |-> cluster.lat,
     lng |-> cluster.lng,
     count |-> cluster.count,
     avg_severity |-> Round2(cluster.avg_severity, cluster.count),
     top_category |-> top_category(cluster.categories)]

\* hotspots.sort(key=count, reverse=True): a stable sort, so the first of the
\* entries with the highest count comes first
RECURSIVE sort_by_count(_)
sort_by_count(hotspots) ==
    IF hotspots = <<>>
    THEN <<>>
    ELSE LET first == CHOOSE k \in DOMAIN hotspots :
                         \A j \in DOMAIN hotspots :
                            \/ hotspots[j].count < hotspots[k].count
                            \/ hotspots[j].count = hotspots[k].count /\ k <= j
             others == SelectSeq([k \in DOMAIN hotspots |->
                                     [at |-> k, entry |-> hotspots[k]]],
                                 LAMBDA e : e.at # first)
         IN  <<hotspots[first]>>
                \o sort_by_count([k \in DOMAIN others |-> others[k].entry])

\* get_hotspots at time t with the request's days and category: the list
\* under 'hotspots' of the response
get_hotspots(table, t, days, category) ==
    LET clusters == cluster_loop(table, hotspot_query(table, t, days, category),
                                 <<>>)
        hotspots == sort_by_count([k \in DOMAIN clusters |-> hotspot(clusters[k])])
    IN  SubSeq(hotspots, 1, Min(Len(hotspots), HotspotLimit))

\* ------------------------------------------------------------------ state

VARIABLES
    complaints,  \* table complaints: a sequence of rows, the key is the index
    users,       \* table users: id -> [role, department, is_active]
    now,         \* datetime.utcnow(), in hours
    op,          \* the operation that ran last: its name, what it returned
                 \* (a service method's value, a request's status code) and
                 \* the row it added to table status_updates (NoUpdate: none)
    requests     \* the invocations of auto_assign_complaint that run step by
                 \* step beside one another: the locals of each and the
                 \* place it has come to

vars == <<complaints, users, now, op, requests>>

valid_statuses == {"pending", "in_progress", "resolved", "closed", "rejected"}

officer_statuses == {"in_progress", "resolved", "closed"}

\* the texts submitted
SubmitTexts ==
    {{"gas leak", "street"}, {"garbage", "dustbin", "minor"}}

\* the one text submitted where every operation is in play
ServiceTexts ==
    {{"gas leak", "garbage"}}

\* data.get('category') when the submission declares none
NoCategory == ""

\* the category a submission declares
SubmitCategories == {NoCategory}

Ids == DOMAIN complaints

\* a status column that is NULL
NoStatus == ""

\* no StatusUpdate row
NoUpdate == [previous_status |-> NoStatus, new_status |-> NoStatus]

\* StatusUpdate(previous_status=..., new_status=...)
StatusUpdate(previous_status, new_status) ==
    [previous_status |-> previous_status, new_status |-> new_status]

\* an operation that adds no StatusUpdate row
Result(name, ret) ==
    [name |-> name, ret |-> ret, update |-> NoUpdate]

\* an operation that adds one
Logged(name, ret, update) ==
    [name |-> name, ret |-> ret, update |-> update]

\* the Complaint row create_complaint builds; columns it does not set take
\* the defaults of the model class
NewComplaint(text, category, t) ==
    LET ai_result == process_complaint(text, category)
    IN  [description |-> text,
         status |-> "pending",
         priority |-> ai_result.priority,
         severity_score |-> ai_result.severity_score,
         category |-> IF category # NoCategory THEN category ELSE ai_result.category,
         ai_category |-> ai_result.ai_category,
         category_confidence |-> ai_result.confidence,
         latitude |-> 0,
         longitude |-> 0,
         department |-> get_department_for_category(ai_result.category),
         officer_id |-> None,
         created_at |-> t,
         resolved_at |-> NoTime,
         escalated_at |-> NoTime,
         is_duplicate |-> FALSE,
         duplicate_of_id |-> None,
         escalation_level |-> 0]

Init ==
    /\ complaints = <<>>
    /\ users = <<[role |-> "officer", department |-> "Sanitation Department",
                  is_active |-> TRUE],
                 [role |-> "officer", department |-> "Public Works Department",
                  is_active |-> TRUE],
                 [role |-> "admin", department |-> NoDepartment,
                  is_active |-> TRUE],
                 [role |-> "citizen", department |-> NoDepartment,
                  is_active |-> TRUE]>>
    /\ now = 0
    /\ op = Result("init", None)
    /\ requests = <<>>

\* the clock advances by some hours
Tick(hours) ==
    /\ now' = now + hours
    /\ op' = Result("tick", None)
    /\ UNCHANGED <<complaints, users, requests>>

\* POST /complaints
CreateComplaint(text, category) ==
    /\ complaints' = Append(complaints, NewComplaint(text, category, now))
    /\ op' = Logged("create_complaint", 201, StatusUpdate(NoStatus, "pending"))
    /\ UNCHANGED <<users, now, requests>>

\* the row of a submission that gives its coordinates
NewComplaintAt(text, category, t, latitude, longitude) ==
    [NewComplaint(text, category, t) EXCEPT
        !.latitude = latitude, !.longitude = longitude]

\* POST /complaints with latitude and longitude in the body
CreateComplaintAt(text, category, latitude, longitude) ==
    /\ latitude \in -9000000..9000000
    /\ longitude \in -18000000..18000000
    /\ complaints' = Append(complaints,
                            NewComplaintAt(text, category, now,
                                           latitude, longitude))
    /\ op' = Logged("create_complaint", 201, StatusUpdate(NoStatus, "pending"))
    /\ UNCHANGED <<users, now, requests>>

\* GET /analytics/hotspots
GetHotspots(days, category) ==
    /\ op' = Result("get_hotspots", get_hotspots(complaints, now, days, category))
    /\ UNCHANGED <<complaints, users, now, requests>>

\* ComplaintService.check_escalation on one complaint
CheckEscalation(i) ==
    /\ complaints' = [complaints EXCEPT
                         ![i] = check_escalation(complaints[i], now).complaint]
    /\ op' = Result("check_escalation",
                    check_escalation(complaints[i], now).ret)
    /\ UNCHANGED <<users, now, requests>>

\* ComplaintService.run_escalation_check
RunEscalationCheck ==
    /\ complaints' = run_escalation_check(complaints, now).complaints
    /\ op' = Result("run_escalation_check",
                    run_escalation_check(complaints, now).ret)
    /\ UNCHANGED <<users, now, requests>>

\* A defective variant of update_complaint_status: it clears the escalation
\* of a complaint it sets back to pending.
UpdateComplaintStatusClearingEscalation(u, i, new_status) ==
    /\ users[u].role # "citizen"
    /\ new_status \in valid_statuses
    /\ complaints' = [complaints EXCEPT
                         ![i].status = new_status,
                         ![i].escalation_level = IF new_status = "pending"
                                                 THEN 0 ELSE @,
                         ![i].resolved_at = IF new_status = "resolved"
                                            THEN now ELSE @]
    /\ op' = Logged("update_complaint_status", 200,
                    StatusUpdate(complaints[i].status, new_status))
    /\ UNCHANGED <<users, now, requests>>

\* PUT /complaints/<id>/status by user u; a request that is refused (403,
\* 400) changes nothing
UpdateComplaintStatus(u, i, new_status) ==
    /\ users[u].role # "citizen"
    /\ new_status \in valid_statuses
    /\ complaints' = [complaints EXCEPT
                         ![i].status = new_status,
                         ![i].resolved_at = IF new_status = "resolved"
                                            THEN now ELSE @]
    /\ op' = Logged("update_complaint_status", 200,
                    StatusUpdate(complaints[i].status, new_status))
    /\ UNCHANGED <<users, now, requests>>

\* POST /officer/complaints/<id>/update by user u; a request that is refused
\* (403, 400) changes nothing
UpdateMyComplaint(u, i, new_status) ==
    /\ users[u].role \in {"officer", "admin"}
    /\ complaints[i].officer_id = u \/ users[u].role = "admin"
    /\ new_status \in officer_statuses
    /\ complaints' = [complaints EXCEPT
                         ![i].status = new_status,
                         ![i].resolved_at = IF new_status = "resolved"
                                            THEN now ELSE @]
    /\ op' = Logged("update_my_complaint", 200,
                    StatusUpdate(complaints[i].status, new_status))
    /\ UNCHANGED <<users, now, requests>>

\* A defective variant of claim_complaint: it does not compare departments.
claim_complaint_any_department(table, people, u, i) ==
    IF table[i].officer_id # None
    THEN [complaints |-> table, ret |-> 400, update |-> NoUpdate]
    ELSE [complaints |-> [table EXCEPT ![i].officer_id = u,
                                       ![i].status = "in_progress"],
          ret |-> 200,
          update |-> StatusUpdate("pending", "in_progress")]

\* claim_complaint by user u, an officer or an admin, on row i of the table:
\* the table as it leaves it, the status code, and the StatusUpdate row it
\* adds.  400 when the complaint is assigned, 403 when the user has a
\* department and the complaint is of another one.
claim_complaint(table, people, u, i) ==
    IF table[i].officer_id # None
    THEN [complaints |-> table, ret |-> 400, update |-> NoUpdate]
    ELSE IF /\ people[u].department # NoDepartment
            /\ table[i].department # people[u].department
    THEN [complaints |-> table, ret |-> 403, update |-> NoUpdate]
    ELSE [complaints |-> [table EXCEPT ![i].officer_id = u,
                                       ![i].status = "in_progress"],
          ret |-> 200,
          update |-> StatusUpdate("pending", "in_progress")]

\* POST /officer/claim/<id> by user u; officer_required lets officers and
\* admins through
ClaimComplaint(u, i) ==
    /\ users[u].role \in {"officer", "admin"}
    /\ complaints' = claim_complaint(complaints, users, u, i).complaints
    /\ op' = Logged("claim_complaint",
                    claim_complaint(complaints, users, u, i).ret,
                    claim_complaint(complaints, users, u, i).update)
    /\ UNCHANGED <<users, now, requests>>

\* PUT /complaints/<id>/assign by an admin, naming an officer; a request that
\* names no officer (404) changes nothing
AssignComplaint(i, officer_id) ==
    /\ users[officer_id].role = "officer"
    /\ complaints' = [complaints EXCEPT
                         ![i].officer_id = officer_id,
                         ![i].status = IF @ = "pending" THEN "in_progress" ELSE @]
    /\ op' = Result("assign_complaint", 200)
    /\ UNCHANGED <<users, now, requests>>

\* ComplaintService.auto_assign_complaint on one complaint
AutoAssignComplaint(i) ==
    /\ complaints' = auto_assign_complaint(complaints, users, i).complaints
    /\ op' = Result("auto_assign_complaint",
                    auto_assign_complaint(complaints, users, i).ret)
    /\ UNCHANGED <<users, now, requests>>

\* auto_assign_complaint(complaints[i]) run step by step, one query or one
\* write at a step, so that other invocations can run in between.
\* - the start of an invocation up to the query of the officers
QueryOfficers(i) ==
    LET department == complaints[i].department
        officers == IF department = NoDepartment THEN <<>>
                    ELSE SelectSeq([u \in DOMAIN users |-> u],
                                   LAMBDA u : u \in officers_of(users, department))
    IN  /\ requests' = Append(requests,
                              [complaint |-> i,
                               officers |-> officers,
                               min_load |-> Len(complaints) + 1,
                               selected_officer |-> None,
                               pc |-> IF officers = <<>>
                                      THEN "returned" ELSE "count"])
        /\ op' = Result("query_officers", Len(officers))
        /\ UNCHANGED <<complaints, users, now>>

\* A defective variant of CountLoad: the count takes in the complaints that
\* other invocations have selected the officer for and not yet written.
CountLoadWithSelections(r) ==
    LET officer == Head(requests[r].officers)
        pending_count_ == pending_count(complaints, officer)
                            + Cardinality({q \in DOMAIN requests :
                                 /\ q # r
                                 /\ requests[q].pc = "assign"
                                 /\ requests[q].selected_officer = officer})
        less == pending_count_ < requests[r].min_load
    IN  /\ requests[r].pc = "count"
        /\ requests' = [requests EXCEPT
               ![r].min_load = IF less THEN pending_count_ ELSE @,
               ![r].selected_officer = IF less THEN officer ELSE @,
               ![r].officers = Tail(@),
               ![r].pc = IF Tail(requests[r].officers) = <<>>
                         THEN "assign" ELSE "count"]
        /\ op' = Result("count_load", pending_count_)
        /\ UNCHANGED <<complaints, users, now>>

\* - one turn of the loop over the officers: the count query of the next
\*   officer and the comparison with min_load
CountLoad(r) ==
    LET officer == Head(requests[r].officers)
        pending_count_ == pending_count(complaints, officer)
        less == pending_count_ < requests[r].min_load
    IN  /\ requests[r].pc = "count"
        /\ requests' = [requests EXCEPT
               ![r].min_load = IF less THEN pending_count_ ELSE @,
               ![r].selected_officer = IF less THEN officer ELSE @,
               ![r].officers = Tail(@),
               ![r].pc = IF Tail(requests[r].officers) = <<>>
                         THEN "assign" ELSE "count"]
        /\ op' = Result("count_load", pending_count_)
        /\ UNCHANGED <<complaints, users, now>>

\* - the assignment and the return
AssignSelected(r) ==
    /\ requests[r].pc = "assign"
    /\ complaints' = IF requests[r].selected_officer # None
                     THEN [complaints EXCEPT
                              ![requests[r].complaint].officer_id =
                                  requests[r].selected_officer]
                     ELSE complaints
    /\ requests' = [requests EXCEPT ![r].pc = "returned"]
    /\ op' = Result("auto_assign_complaint", requests[r].selected_officer)
    /\ UNCHANGED <<users, now>>

\* ComplaintService.mark_as_duplicate(complaints[c], complaints[o])
MarkAsDuplicate(c, o) ==
    /\ complaints' = mark_as_duplicate(complaints, c, o).complaints
    /\ op' = Result("mark_as_duplicate",
                    mark_as_duplicate(complaints, c, o).ret)
    /\ UNCHANGED <<users, now, requests>>

\* ComplaintService.close_stale_resolved(days_threshold=7)
CloseStaleResolved ==
    LET stale_complaints ==
            {i \in Ids : /\ complaints[i].status = "resolved"
                         /\ complaints[i].resolved_at # NoTime
                         /\ complaints[i].resolved_at < now - 7 * 24}
    IN  /\ complaints' = [i \in Ids |->
                             IF i \in stale_complaints
                             THEN [complaints[i] EXCEPT !.status = "closed"]
                             ELSE complaints[i]]
        /\ op' = Result("close_stale_resolved", Cardinality(stale_complaints))
        /\ UNCHANGED <<users, now, requests>>

\* ------------------------------------------------------- specifications

\* the complaints service as a whole; a complaint is linked as a duplicate
\* once
Next ==
    \/ now < MaxTicks * ServiceTickHours /\ Tick(ServiceTickHours)
    \/ /\ Len(complaints) < MaxComplaints
       /\ \E text \in ServiceTexts, category \in SubmitCategories :
             CreateComplaint(text, category)
    \/ \E i \in Ids : CheckEscalation(i)
    \/ RunEscalationCheck
    \/ \E u \in DOMAIN users, i \in Ids, s \in valid_statuses :
          UpdateComplaintStatus(u, i, s)
    \/ \E u \in DOMAIN users, i \in Ids, s \in officer_statuses :
          UpdateMyComplaint(u, i, s)
    \/ \E u \in DOMAIN users, i \in Ids : ClaimComplaint(u, i)
    \/ \E i \in Ids, o \in DOMAIN users : AssignComplaint(i, o)
    \/ \E i \in Ids : AutoAssignComplaint(i)
    \/ \E c \in Ids, o \in Ids :
          ~complaints[c].is_duplicate /\ MarkAsDuplicate(c, o)
    \/ CloseStaleResolved

Spec == Init /\ [][Next]_vars

\* the escalation machine: submissions, the clock, escalation checks and
\* status updates
NextEsc ==
    \/ now < MaxEscTicks * TickHours /\ Tick(TickHours)
    \/ /\ Len(complaints) < MaxEscComplaints
       /\ \E text \in SubmitTexts, category \in SubmitCategories :
             CreateComplaint(text, category)
    \/ \E i \in Ids : CheckEscalation(i)
    \/ RunEscalationCheck
    \/ \E u \in DOMAIN users, i \in Ids, s \in valid_statuses :
          UpdateComplaintStatus(u, i, s)
    \/ CloseStaleResolved

SpecEsc == Init /\ [][NextEsc]_vars

\* the duplicate linker: submissions and links
NextDup ==
    \/ /\ Len(complaints) < MaxDuplicates + 1
       /\ \E text \in SubmitTexts, category \in SubmitCategories :
             CreateComplaint(text, category)
    \/ \E c \in Ids, o \in Ids :
          ~complaints[c].is_duplicate /\ MarkAsDuplicate(c, o)

SpecDup == Init /\ [][NextDup]_vars

\* ------------------------------------------------------------- properties

\* a complaint's hours_pending passed its threshold n times over
Overdue(i, n) ==
    now - complaints[i].created_at > n * threshold_hours(complaints[i].priority)

\* C1 (as amended): while a complaint's status is resolved or closed, no
\* operation changes its escalation_level; its level can change again only
\* after an operation has set its status back to an open one.
C1_LevelFrozenWhileResolvedOrClosed ==
    [][\A i \in Ids :
          complaints[i].status \in {"resolved", "closed"}
             => complaints'[i].escalation_level = complaints[i].escalation_level]_vars

\* C1 witness: check_escalation has just run on a resolved or closed complaint
\* that is past its threshold, and has left it at level 0
C1_CheckedWhileResolved ==
    /\ op.name = "check_escalation"
    /\ \E i \in Ids : /\ complaints[i].status \in {"resolved", "closed"}
                      /\ Overdue(i, 1)
                      /\ complaints[i].escalation_level = 0

\* C1 as stated: once a complaint has been resolved (resolved_at is set), no
\* operation ever changes its escalation_level.  A status update or a claim
\* reopens the complaint, and check_escalation then escalates it.
C1_LevelFrozenOnceResolved ==
    [][\A i \in Ids :
          complaints[i].resolved_at # NoTime
             => complaints'[i].escalation_level = complaints[i].escalation_level]_vars

C3_StableAfterSecondRun ==
    LET first  == run_escalation_check(complaints, now)
        second == run_escalation_check(first.complaints, now)
        third  == run_escalation_check(second.complaints, now)
    IN  /\ third.complaints = second.complaints
        /\ third.ret = 0
        /\ (\A i \in pending(complaints) :
               ~(complaints[i].escalation_level = 0 /\ Overdue(i, 2)))
              => /\ second.complaints = first.complaints
                 /\ second.ret = 0

\* C3 witness: run_escalation_check has just escalated a complaint, and a
\* second run now changes nothing
C3_SecondRunIdle ==
    /\ op.name = "run_escalation_check"
    /\ op.ret > 0
    /\ run_escalation_check(complaints, now).complaints = complaints
    /\ run_escalation_check(complaints, now).ret = 0

\* C3 as stated: for every starting state, the second of two runs with no
\* time elapsed changes no complaint and returns 0.  A complaint at level 0
\* past twice its threshold goes to level 1 in the first run and to level 2
\* in the second.
C3_SecondRunChangesNothing ==
    LET first  == run_escalation_check(complaints, now)
        second == run_escalation_check(first.complaints, now)
    IN  /\ second.complaints = first.complaints
        /\ second.ret = 0

\* C4: run_escalation_check applies check_escalation to exactly the pending
\* and in_progress complaints, leaves every other complaint unchanged, and
\* returns the number of complaints whose escalation_level it changed.
C4_RunExaminesOpenAndCountsChanges ==
    [][op'.name = "run_escalation_check" =>
          /\ \A i \in Ids :
                complaints'[i] =
                   IF complaints[i].status \in {"pending", "in_progress"}
                   THEN check_escalation(complaints[i], now).complaint
                   ELSE complaints[i]
          /\ op'.ret = Cardinality({i \in Ids :
                            complaints'[i].escalation_level
                               # complaints[i].escalation_level})]_vars

\* C4 witness: a run has escalated one complaint and counted 1, while it left
\* alone a complaint escalated before that has no further transition and a
\* rejected one that is past its threshold
C4_RunCountedOneOfTwo ==
    /\ op.name = "run_escalation_check"
    /\ op.ret = 1
    /\ \E i \in Ids, j \in Ids :
          /\ i # j
          /\ complaints[i].status \in {"pending", "in_progress"}
          /\ complaints[i].escalated_at = now
          /\ complaints[j].escalation_level = 0
          /\ complaints[j].status = "rejected"
          /\ Overdue(j, 1)

\* C5 as stated: linking a complaint to a different one it does not yet point
\* at raises the original's severity by min(n * 0.1, 0.3), capped at 1.0,
\* with n the number of duplicates that pointed at the original before the
\* call.  The code counts the link it has just made: the first link raises
\* the severity by 0.1, the second by 0.2.
C5_BoostCountsPriorDuplicates ==
    \A c \in Ids, o \in Ids :
       (c # o /\ complaints[c].duplicate_of_id # o)
          => mark_as_duplicate(complaints, c, o).complaints[o].severity_score
                = Min(complaints[o].severity_score
                         + Min(duplicate_count(complaints, o) * 100, 300),
                      1000)

\* C6 as stated: a complaint's severity never exceeds the severity it was
\* submitted with by more than 0.3.  Each call adds its boost to the
\* severity the calls before it have raised: three links add 0.1, 0.2 and 0.3.
C6_TotalBoostAtMost300 ==
    \A i \in Ids :
       complaints[i].severity_score
          - process_complaint(complaints[i].description, NoCategory).severity_score
             <= 300

\* the complaints reached from complaint i by following at most n
\* duplicate_of links
RECURSIVE duplicate_chain(_, _)
duplicate_chain(i, n) ==
    IF n = 0 \/ complaints[i].duplicate_of_id = None
    THEN {}
    ELSE {complaints[i].duplicate_of_id}
            \cup duplicate_chain(complaints[i].duplicate_of_id, n - 1)

\* C7 as stated: the duplicate_of links form a forest: no complaint is its
\* own duplicate, no chain of links returns to the complaint it starts from,
\* and every chain ends at a complaint not marked as a duplicate.
\* mark_as_duplicate(a, b) followed by mark_as_duplicate(b, a) closes a cycle.
C7_DuplicateLinksFormForest ==
    \A i \in Ids :
       /\ complaints[i].duplicate_of_id # i
       /\ i \notin duplicate_chain(i, Len(complaints))
       /\ \E j \in {i} \cup duplicate_chain(i, Len(complaints)) :
             ~complaints[j].is_duplicate

\* C8: mark_as_duplicate of a complaint with itself returns false and leaves
\* the table as it is, whatever the complaint's links
C8_SelfLinkRefused ==
    \A c \in Ids :
       mark_as_duplicate(complaints, c, c) = [complaints |-> complaints,
                                              ret |-> FALSE]

\* C8 witness: a self-link has just been refused in a table that holds a
\* duplicate
C8_SelfLinkTried ==
    /\ op.name = "mark_as_duplicate"
    /\ op.ret = FALSE
    /\ \E i \in Ids : complaints[i].is_duplicate

\* C9: mark_as_duplicate of two different complaints returns true, sets the
\* duplicate's is_duplicate and duplicate_of_id, and changes nothing else but
\* the original's severity_score
C9_LinkFrame ==
    \A c \in Ids, o \in Ids :
       c # o =>
          LET result == mark_as_duplicate(complaints, c, o)
          IN  /\ result.ret = TRUE
              /\ result.complaints[c] =
                    [complaints[c] EXCEPT !.is_duplicate = TRUE,
                                          !.duplicate_of_id = o]
              /\ \A column \in DOMAIN complaints[o] \ {"severity_score"} :
                    result.complaints[o][column] = complaints[o][column]
              /\ \A i \in Ids \ {c, o} : result.complaints[i] = complaints[i]

\* C9 witness: a link has just been made onto an original that is itself a
\* duplicate of a third complaint
C9_LinkedOntoDuplicate ==
    /\ op.name = "mark_as_duplicate"
    /\ op.ret = TRUE
    /\ \E c \in Ids, o \in Ids :
          /\ c # o
          /\ complaints[c].duplicate_of_id = o
          /\ complaints[o].is_duplicate
          /\ complaints[o].duplicate_of_id \notin {c, o}

\* the hours unresolved a severity is computed for
HoursUnresolved == {0, 169}

\* C10: every complaint's severity_score is in [0, 1] in every state, and so
\* is the score calculate_severity_score gives any text at any age
C10_SeverityInRange ==
    /\ \A i \in Ids : complaints[i].severity_score \in 0..1000
    /\ \A text \in SUBSET Vocabulary, hours \in HoursUnresolved :
          calculate_severity_score(text, hours) \in 0..1000

\* C10 witness: the boost of a link has been cut at 1.0
C10_BoostCapped ==
    /\ op.name = "mark_as_duplicate"
    /\ \E i \in Ids :
          /\ complaints[i].severity_score = 1000
          /\ duplicate_count(complaints, i) = MaxDuplicates

\* ------------------------------------------------- assignment, taken alone

\* three active officers of the Sanitation Department and one who has left
AssignUsers ==
    <<[role |-> "officer", department |-> "Sanitation Department",
       is_active |-> TRUE],
      [role |-> "officer", department |-> "Sanitation Department",
       is_active |-> TRUE],
      [role |-> "officer", department |-> "Sanitation Department",
       is_active |-> TRUE],
      [role |-> "officer", department |-> "Sanitation Department",
       is_active |-> FALSE],
      [role |-> "admin", department |-> NoDepartment, is_active |-> TRUE]>>

\* a complaint submitted at hour 0 with text, then left alone (officer None),
\* or assigned by the admin to an officer (which puts it in progress) and
\* then perhaps resolved
AssignedRows(text) ==
    LET row == NewComplaint(text, NoCategory, 0)
    IN  {row}
        \cup {[row EXCEPT !.officer_id = officer, !.status = "in_progress"] :
                 officer \in 1..3}
        \cup {[row EXCEPT !.officer_id = officer, !.status = "resolved",
                          !.resolved_at = 0] : officer \in 1..3}

\* the place of a row among the rows of one department: by officer, the
\* resolved ones last
RowOrder(row) ==
    2 * row.officer_id + (IF row.status = "resolved" THEN 1 ELSE 0)

\* the tables the assignment starts from: the first complaint is for the
\* Sanitation Department or for Public Works, which has no officer; the
\* others are for the Sanitation Department.  The count queries do not
\* depend on the order of the rows: the others are taken in one order.
InitAssign ==
    /\ complaints \in
          {table \in [1..MaxAssignComplaints ->
                         AssignedRows({"garbage"}) \cup AssignedRows({"street"})] :
              /\ \A i \in 2..MaxAssignComplaints :
                    table[i].department = "Sanitation Department"
              /\ \A i \in 2..MaxAssignComplaints - 1 :
                    RowOrder(table[i]) <= RowOrder(table[i + 1])}
    /\ users = AssignUsers
    /\ now = 0
    /\ op = Result("init", None)
    /\ requests = <<>>

NextAssign ==
    \E i \in Ids : AutoAssignComplaint(i)

SpecAssign == InitAssign /\ [][NextAssign]_vars

\* ------------------------------------------------- submission, taken alone

\* the texts submitted: every set of words of the vocabulary
AITexts == SUBSET Vocabulary

\* the categories declared: none, one of self.categories, one that is not
AICategories == {NoCategory, "water", "potholes"}

NextAI ==
    /\ Len(complaints) < MaxAIComplaints
    /\ \E text \in AITexts, category \in AICategories :
          CreateComplaint(text, category)

SpecAI == Init /\ [][NextAI]_vars

\* C11 as stated: in every state each complaint's stored priority is
\* get_priority_from_score of its stored severity_score.  mark_as_duplicate
\* raises the original's severity_score and leaves its priority as it was.
C11_PriorityFollowsSeverity ==
    \A i \in Ids :
       complaints[i].priority = get_priority_from_score(complaints[i].severity_score)

\* C12: where the complaint's department has an active officer,
\* auto_assign_complaint returns an active officer of the department whose
\* count of pending and in_progress complaints is the least, the first such
\* officer in the order of the query, and assigns the complaint to that
\* officer; with loads 3, 1, 1 it is the second officer.
C12_LeastLoadedFirstTied ==
    \A i \in Ids :
       LET officers == officers_of(users, complaints[i].department)
           result == auto_assign_complaint(complaints, users, i)
       IN  officers # {} =>
              /\ result.ret \in officers
              /\ \A v \in officers :
                    /\ pending_count(complaints, result.ret)
                          <= pending_count(complaints, v)
                    /\ v < result.ret =>
                          pending_count(complaints, result.ret)
                             < pending_count(complaints, v)
              /\ result.complaints =
                    [complaints EXCEPT ![i].officer_id = result.ret]
              /\ (/\ complaints[i].department = "Sanitation Department"
                  /\ pending_count(complaints, 1) = 3
                  /\ pending_count(complaints, 2) = 1
                  /\ pending_count(complaints, 3) = 1) => result.ret = 2

\* C12 witness: an assignment has left the three officers with loads 3, 1, 1
C12_LoadsThreeOneOne ==
    /\ op.name = "auto_assign_complaint"
    /\ op.ret # None
    /\ pending_count(complaints, 1) = 3
    /\ pending_count(complaints, 2) = 1
    /\ pending_count(complaints, 3) = 1

C14_NoOfficerNoAssignment ==
    \A i \in Ids :
       /\ officers_of(users, complaints[i].department) = {}
             => auto_assign_complaint(complaints, users, i)
                   = [complaints |-> complaints, ret |-> None]
       /\ LET table == [complaints EXCEPT ![i].department = NoDepartment]
          IN  auto_assign_complaint(table, users, i)
                 = [complaints |-> table, ret |-> None]

\* C14 witness: a call on a complaint of a department without officers, which
\* the admin had assigned to an officer of another one, has returned None
C14_ReturnedNone ==
    /\ op.name = "auto_assign_complaint"
    /\ op.ret = None
    /\ \E i \in Ids : /\ officers_of(users, complaints[i].department) = {}
                      /\ complaints[i].officer_id # None

\* the users officer_required lets through
Claimers ==
    {u \in DOMAIN users : users[u].role \in {"officer", "admin"}}

\* C15 (as amended): claim_complaint succeeds exactly when the complaint is
\* unassigned and the claiming user either has no department or has the
\* complaint's department; a claim that succeeds assigns the complaint to the
\* claimer and puts it in progress, and a claim that is rejected leaves the
\* table as it is.
C15_ClaimNeedsUnassignedAndNoOtherDepartment ==
    \A u \in Claimers, i \in Ids :
       LET result == claim_complaint(complaints, users, u, i)
       IN  /\ result.ret = 200 <=>
                 /\ complaints[i].officer_id = None
                 /\ \/ users[u].department = NoDepartment
                    \/ users[u].department = complaints[i].department
           /\ result.ret = 200 =>
                 result.complaints = [complaints EXCEPT ![i].officer_id = u,
                                                        ![i].status = "in_progress"]
           /\ result.ret # 200 => result.complaints = complaints

\* C15 witness: a user without a department has just claimed a complaint
C15_ClaimedWithoutDepartment ==
    /\ op.name = "claim_complaint"
    /\ op.ret = 200
    /\ \E i \in Ids :
          /\ complaints[i].officer_id \in Claimers
          /\ users[complaints[i].officer_id].department = NoDepartment
          /\ complaints[i].status = "in_progress"

\* C15 as stated: a claim succeeds only when the complaint is unassigned and
\* its department is the claiming user's own.  A user who has no department
\* claims an unassigned complaint of any department.
C15_ClaimOnlyInOwnDepartment ==
    \A u \in Claimers, i \in Ids :
       claim_complaint(complaints, users, u, i).ret = 200
          => /\ complaints[i].officer_id = None
             /\ complaints[i].department = users[u].department

\* C16 as stated: a claim that succeeds finds the complaint pending, leaves
\* it in progress and assigned to a claimer, and adds a StatusUpdate row whose
\* previous_status is the status the complaint had and whose new_status is
\* in_progress.  The handler does not look at the status and writes
\* previous_status 'pending' whatever it was.
C16_ClaimIsPendingToInProgress ==
    [][(op'.name = "claim_complaint" /\ op'.ret = 200) =>
          \A i \in Ids :
             complaints'[i].officer_id # complaints[i].officer_id =>
                /\ complaints[i].status = "pending"
                /\ complaints'[i].status = "in_progress"
                /\ complaints'[i].officer_id \in Claimers
                /\ op'.update = StatusUpdate(complaints[i].status, "in_progress")]_vars

\* the scores a priority is computed for, in thousandths
Scores == 0..1000

\* the tiers from the lowest to the highest
PriorityRank(priority) ==
    CASE priority = "low"      -> 0
      [] priority = "medium"   -> 1
      [] priority = "high"     -> 2
      [] priority = "critical" -> 3

\* C17: get_priority_from_score gives every score one tier: critical from 0.8
\* up, high from 0.6 to below 0.8, medium from 0.4 to below 0.6, low below
\* 0.4; a higher score never gets a lower tier; and every complaint is
\* submitted with the tier of its score.  (On the grid of thousandths the
\* score next below 0.8 is 0.799.)
C17_PriorityTiers ==
    /\ \A score \in Scores :
          get_priority_from_score(score) =
             CASE score >= 800                -> "critical"
               [] score >= 600 /\ score < 800 -> "high"
               [] score >= 400 /\ score < 600 -> "medium"
               [] score < 400                 -> "low"
    /\ \A score \in Scores \ {1000} :
          PriorityRank(get_priority_from_score(score))
             <= PriorityRank(get_priority_from_score(score + 1))
    /\ get_priority_from_score(800) = "critical"
    /\ get_priority_from_score(799) = "high"
    /\ get_priority_from_score(600) = "high"
    /\ get_priority_from_score(400) = "medium"
    /\ get_priority_from_score(399) = "low"
    /\ \A i \in Ids :
          complaints[i].priority
             = get_priority_from_score(complaints[i].severity_score)

\* C17 witness: a complaint without a critical keyword has been submitted in
\* the medium tier
C17_SubmittedMedium ==
    /\ op.name = "create_complaint"
    /\ \E i \in Ids : /\ complaints[i].priority = "medium"
                      /\ complaints[i].severity_score \in 400..599
                      /\ complaints[i].severity_score # 510

\* C18: the urgency of a text in which a critical keyword occurs is exactly
\* 1.0, whatever other keywords occur in it
C18_CriticalKeywordGivesOne ==
    \A i \in Ids :
       LET text == complaints[i].description
       IN  (\E kw \in urgency_keywords.critical : Occurs(kw, text))
              => /\ calculate_keyword_urgency(text) = [num |-> 1, den |-> 1]
                 /\ complaints[i].severity_score = 510

\* C18 witness: a complaint has been submitted whose text has a critical
\* keyword next to a high, a medium and a low one
C18_CriticalAmongOthers ==
    /\ op.name = "create_complaint"
    /\ \E i \in Ids :
          {"gas leak", "school", "problem", "minor"} \subseteq complaints[i].description

\* C19: the urgency of a text without a critical keyword is
\* (0.7 * high hits + 0.4 * medium hits + 0.1 * low hits) / total hits, and
\* 0.30 when there is no hit; it is in [0, 1]
C19_WeightedUrgency ==
    \A i \in Ids :
       LET text == complaints[i].description
           high_count   == Hits(urgency_keywords.high, text)
           medium_count == Hits(urgency_keywords.medium, text)
           low_count    == Hits(urgency_keywords.low, text)
           total   == high_count + medium_count + low_count
           urgency == calculate_keyword_urgency(text)
       IN  (~\E kw \in urgency_keywords.critical : Occurs(kw, text))
              => /\ urgency.den > 0
                 /\ 0 <= urgency.num /\ urgency.num <= urgency.den
                 /\ IF total = 0
                    THEN urgency.num * 10 = 3 * urgency.den
                    ELSE urgency.num * 10 * total
                            = (7 * high_count + 4 * medium_count + low_count)
                                 * urgency.den

\* C19 witness: a complaint has been submitted whose text has two high
\* keywords, a medium and a low one, and no critical one
C19_MixedHits ==
    /\ op.name = "create_complaint"
    /\ \E i \in Ids :
          /\ Hits(urgency_keywords.high, complaints[i].description) = 2
          /\ Hits(urgency_keywords.medium, complaints[i].description) = 1
          /\ Hits(urgency_keywords.low, complaints[i].description) = 1
          /\ Hits(urgency_keywords.critical, complaints[i].description) = 0

\* the sum of the hit counts of the categories
TotalCategoryHits(text) ==
    LET add[k \in 0..Len(CategoryOrder)] ==
           IF k = 0 THEN 0
           ELSE add[k - 1] + category_score(CategoryOrder[k], text)
    IN  add[Len(CategoryOrder)]

MaxHotComplaints == 3
MaxHotTicks == 1
\* one hour more than the 30 days of the default window
HotTickHours == 721

\* 28.61390, 28.61395 and 28.61600 degrees; 77.20899 and 77.20901 degrees:
\* none of them lies half way between two grid lines
HotLatitudes == {2861390, 2861395, 2861600}
HotLongitudes == {7720899, 7720901}
HotDays == {30}
HotCategories == {NoCategory, "sanitation"}

NextHot ==
    \/ now < MaxHotTicks * HotTickHours /\ Tick(HotTickHours)
    \/ /\ Len(complaints) < MaxHotComplaints
       /\ \E text \in SubmitTexts, latitude \in HotLatitudes,
             longitude \in HotLongitudes :
             CreateComplaintAt(text, NoCategory, latitude, longitude)
    \/ \E days \in HotDays, category \in HotCategories :
          GetHotspots(days, category)

SpecHot == Init /\ [][NextHot]_vars

\* the distance of a coordinate from a grid line
Distance(value, line) ==
    IF value >= line THEN value - line ELSE line - value

\* the complaint i lies in the cell of the hotspot h
InHotspot(i, h) ==
    /\ 2 * Distance(complaints[i].latitude, h.lat) <= grid_size
    /\ 2 * Distance(complaints[i].longitude, h.lng) <= grid_size

RECURSIVE SumOfCounts(_)
SumOfCounts(hotspots) ==
    IF hotspots = <<>> THEN 0
    ELSE Head(hotspots).count + SumOfCounts(Tail(hotspots))

\* the submissions of the example: (28.61390, 77.20899), (28.61395, 77.20901)
ExampleComplaints ==
    <<NewComplaintAt({"garbage"}, NoCategory, 0, 2861390, 7720899),
      NewComplaintAt({"garbage"}, NoCategory, 0, 2861395, 7720901)>>

\* C21: the hotspots of get_hotspots are the cells of the 0.01 degree grid
\* that hold a complaint of the query: every hotspot lies on a grid line in
\* both directions, no two hotspots are the same cell, every complaint of the
\* query lies in exactly the hotspot whose grid lines are nearest to it, the
\* count of a hotspot is the number of the complaints in its cell, the
\* counts sum to the number of complaints of the query, the list descends by
\* count, and the two complaints of the example give one hotspot of count 2.
C21_HotspotsAreGridCells ==
    /\ \A days \in HotDays, category \in HotCategories :
          LET rows == {i \in Ids :
                         /\ complaints[i].created_at >= now - days * 24
                         /\ category = NoCategory
                               \/ complaints[i].category = category}
              hotspots == get_hotspots(complaints, now, days, category)
          IN  /\ \A k \in DOMAIN hotspots :
                    /\ hotspots[k].lat % grid_size = 0
                    /\ hotspots[k].lng % grid_size = 0
                    /\ hotspots[k].count
                          = Cardinality({i \in rows : InHotspot(i, hotspots[k])})
                    /\ hotspots[k].count > 0
              /\ \A k, j \in DOMAIN hotspots :
                    k < j => /\ \/ hotspots[k].lat # hotspots[j].lat
                                \/ hotspots[k].lng # hotspots[j].lng
                             /\ hotspots[k].count >= hotspots[j].count
              /\ \A i \in rows :
                    \E k \in DOMAIN hotspots : InHotspot(i, hotspots[k])
              /\ SumOfCounts(hotspots) = Cardinality(rows)
    /\ LET hotspots == get_hotspots(ExampleComplaints, 0, 30, NoCategory)
       IN  /\ Len(hotspots) = 1
           /\ hotspots[1].count = 2
           /\ hotspots[1].lat = 2861000
           /\ hotspots[1].lng = 7721000

\* the hotspots were asked for with two complaints in one cell and a third
\* in another
C21_TwoInOneCell ==
    /\ op.name = "get_hotspots"
    /\ Len(op.ret) = 2
    /\ op.ret[1].count = 2
    /\ op.ret[2].count = 1
    /\ \E i, j \in Ids :
          /\ i # j
          /\ complaints[i].latitude # complaints[j].latitude
          /\ complaints[i].longitude # complaints[j].longitude
          /\ InHotspot(i, op.ret[1])
          /\ InHotspot(j, op.ret[1])

\* ------------------------------------- escalation by priority, taken alone
\* One complaint as the demo data or an earlier run left it, of any priority,
\* and the hours at and one past the thresholds and twice the thresholds.
MaxPriComplaints == 1

\* a priority outside the four, and the NULL of the column
Priorities == {"critical", "high", "medium", "low", "urgent", ""}

PriStatuses == {"pending", "in_progress", "resolved"}

PriTimes ==
    {0, 4, 5, 8, 9, 24, 25, 48, 49, 72, 73, 144, 145, 168, 169, 336, 337}

InitPri ==
    /\ \E priority \in Priorities, status \in PriStatuses :
          complaints = [i \in 1..MaxPriComplaints |->
                           [NewComplaint({"garbage"}, NoCategory, 0) EXCEPT
                               !.priority = priority,
                               !.status = status,
                               !.resolved_at =
                                   IF status = "resolved" THEN 0 ELSE NoTime]]
    /\ users = <<>>
    /\ now = 0
    /\ op = Result("init", None)
    /\ requests = <<>>

NextPri ==
    \/ \E t \in PriTimes : t > now /\ Tick(t - now)
    \/ \E i \in Ids : CheckEscalation(i)
    \/ RunEscalationCheck

SpecPri == InitPri /\ [][NextPri]_vars

\* the complaint is neither resolved nor closed
Open(complaint) ==
    complaint.status \notin {"resolved", "closed"}

\* C22: for a complaint neither resolved nor closed at escalation level 0,
\* check_escalation sets the level to 1, sets escalated_at to the current
\* time and returns true when hours_pending is greater than the threshold of
\* the priority, and changes nothing and returns false when it is not; a
\* critical complaint created 5 hours ago goes to level 1.
C22_FirstLevelPastThreshold ==
    /\ \A i \in Ids :
          Open(complaints[i]) /\ complaints[i].escalation_level = 0
             => check_escalation(complaints[i], now)
                   = IF now - complaints[i].created_at
                           > threshold_hours(complaints[i].priority)
                     THEN [complaint |->
                              [complaints[i] EXCEPT !.escalation_level = 1,
                                                    !.escalated_at = now],
                           ret |-> TRUE]
                     ELSE [complaint |-> complaints[i], ret |-> FALSE]
    /\ LET critical == [NewComplaint({"gas leak"}, NoCategory, 0)
                           EXCEPT !.priority = "critical"]
       IN  /\ check_escalation(critical, 5).ret
           /\ check_escalation(critical, 5).complaint.escalation_level = 1
           /\ check_escalation(critical, 5).complaint.escalated_at = 5
           /\ ~check_escalation(critical, 4).ret

\* check_escalation has taken a critical complaint to level 1 at 5 hours
C22_CriticalAtFiveHours ==
    /\ op.name = "check_escalation"
    /\ op.ret = TRUE
    /\ now = 5
    /\ complaints[1].priority = "critical"
    /\ complaints[1].escalation_level = 1
    /\ complaints[1].escalated_at = 5

\* C23: for a complaint neither resolved nor closed at escalation level 1,
\* check_escalation sets the level to 2 and returns true when the time since
\* created_at is greater than twice the threshold of the priority, whatever
\* escalated_at is, and leaves escalated_at as it was; otherwise it changes
\* nothing and returns false.
C23_SecondLevelPastTwiceThreshold ==
    \A i \in Ids :
       Open(complaints[i]) /\ complaints[i].escalation_level = 1
          => check_escalation(complaints[i], now)
                = IF now - complaints[i].created_at
                        > 2 * threshold_hours(complaints[i].priority)
                  THEN [complaint |->
                           [complaints[i] EXCEPT !.escalation_level = 2],
                        ret |-> TRUE]
                  ELSE [complaint |-> complaints[i], ret |-> FALSE]

\* a critical complaint escalated at 5 hours has gone to level 2 at 9 hours,
\* 4 hours after escalated_at, which is still 5
C23_SecondLevelSoonAfterFirst ==
    /\ op.name = "check_escalation"
    /\ op.ret = TRUE
    /\ now = 9
    /\ complaints[1].priority = "critical"
    /\ complaints[1].escalation_level = 2
    /\ complaints[1].escalated_at = 5

\* C24: escalation_level is 0, 1 or 2 in every reachable state, and for a
\* complaint at level 2 check_escalation returns false and changes nothing,
\* however long ago the complaint was created.
C24_LevelTwoIsLast ==
    \A i \in Ids :
       /\ complaints[i].escalation_level \in {0, 1, 2}
       /\ complaints[i].escalation_level = 2
             => check_escalation(complaints[i], now)
                   = [complaint |-> complaints[i], ret |-> FALSE]

\* check_escalation has refused a complaint at level 2 that is past three
\* times its threshold
C24_RefusedAtLevelTwo ==
    /\ op.name = "check_escalation"
    /\ op.ret = FALSE
    /\ Open(complaints[1])
    /\ complaints[1].escalation_level = 2
    /\ Overdue(1, 3)

\* the four entries of the dict thresholds and the default of its get,
\* spelled out
StatedThreshold(priority) ==
    IF priority = "critical" THEN 4
    ELSE IF priority = "high" THEN 24
    ELSE IF priority = "medium" THEN 72
    ELSE IF priority = "low" THEN 168
    ELSE 72

\* C25: check_escalation uses 4 hours for critical, 24 for high, 72 for
\* medium, 168 for low and 72 for any other priority; for a priority outside
\* the four it still returns true or false, escalating a complaint at level 0
\* past 72 hours and one at level 1 past 144 hours.
C25_ThresholdsAndDefault ==
    /\ \A priority \in Priorities :
          threshold_hours(priority) = StatedThreshold(priority)
    /\ \A i \in Ids :
          LET c == complaints[i]
              hours_pending == now - c.created_at
              result == check_escalation(c, now)
          IN  /\ result.ret \in BOOLEAN
              /\ Open(c) /\ c.escalation_level = 0
                    => result.ret = (hours_pending > StatedThreshold(c.priority))
              /\ Open(c) /\ c.escalation_level = 1
                    => result.ret
                          = (hours_pending > 2 * StatedThreshold(c.priority))

\* a complaint of a priority outside the four has been escalated at 73 hours
C25_UnknownPriorityEscalated ==
    /\ op.name = "check_escalation"
    /\ op.ret = TRUE
    /\ now = 73
    /\ complaints[1].priority \notin {"critical", "high", "medium", "low"}
    /\ complaints[1].escalation_level = 1
    /\ complaints[1].escalated_at = 73

\* C28: no step raises a complaint's escalation level by more than one, and
\* a run_escalation_check, which calls check_escalation once on each pending
\* or in-progress complaint, leaves a complaint it finds at level 0 past
\* twice its threshold at level 1; a later call brings it to level 2.
C28_OneLevelPerCall ==
    [][\A i \in Ids :
          /\ complaints'[i].escalation_level
                <= complaints[i].escalation_level + 1
          /\ /\ op'.name = "run_escalation_check"
             /\ complaints[i].status \in {"pending", "in_progress"}
             /\ complaints[i].escalation_level = 0
             /\ Overdue(i, 2)
             => /\ complaints'[i].escalation_level = 1
                /\ check_escalation(complaints'[i], now').ret
                /\ check_escalation(complaints'[i], now').complaint
                      .escalation_level = 2]_vars

\* a complaint first examined past twice its threshold is at level 1
C28_LevelOnePastTwiceThreshold ==
    /\ op.name = "run_escalation_check"
    /\ op.ret = 1
    /\ complaints[1].escalation_level = 1
    /\ complaints[1].escalated_at = now
    /\ Overdue(1, 2)

\* ------------------------------------- assignments beside one another
MaxRaceComplaints == 3
MaxRequests == 2

\* the tables the invocations start from: complaints of the Sanitation
\* Department, left alone or assigned by the admin, in one order
InitRace ==
    /\ complaints \in
          {table \in [1..MaxRaceComplaints -> AssignedRows({"garbage"})] :
              \A i \in 1..MaxRaceComplaints - 1 :
                 RowOrder(table[i]) <= RowOrder(table[i + 1])}
    /\ users = AssignUsers
    /\ now = 0
    /\ op = Result("init", None)
    /\ requests = <<>>

NextRace ==
    \/ /\ Len(requests) < MaxRequests
       /\ \E i \in Ids : QueryOfficers(i)
    \/ \E r \in DOMAIN requests : CountLoad(r)
    \/ \E r \in DOMAIN requests : AssignSelected(r)

SpecRace == InitRace /\ [][NextRace]_vars

\* the table before any invocation wrote: a row that is pending and has an
\* officer got the officer from an invocation
BeforeAssignments ==
    [i \in Ids |-> IF complaints[i].status = "pending"
                   THEN [complaints[i] EXCEPT !.officer_id = None]
                   ELSE complaints[i]]

\* C26: while no invocation of auto_assign_complaint has written its
\* assignment, all the invocations for one department that have computed the
\* officers' loads hold the same selected officer: nothing makes the second
\* see the selection of the first, so both write the same officer also where
\* two invocations one after the other would write two.
C26_SameLoadsSameOfficer ==
    (\A r \in DOMAIN requests : requests[r].pc # "returned")
       => \A r, q \in DOMAIN requests :
             /\ requests[r].pc = "assign"
             /\ requests[q].pc = "assign"
             /\ complaints[requests[r].complaint].department
                   = complaints[requests[q].complaint].department
             => requests[r].selected_officer = requests[q].selected_officer

\* two invocations for two complaints have both written the same officer,
\* and two invocations one after the other from the table they started from
\* write two officers
C26_BothAssignedSameOfficer ==
    /\ Len(requests) = 2
    /\ requests[1].pc = "returned"
    /\ requests[2].pc = "returned"
    /\ requests[1].complaint # requests[2].complaint
    /\ requests[1].selected_officer # None
    /\ requests[1].selected_officer = requests[2].selected_officer
    /\ LET i == requests[1].complaint
           j == requests[2].complaint
           first == auto_assign_complaint(BeforeAssignments, users, i)
           second == auto_assign_complaint(first.complaints, users, j)
       IN  /\ complaints[i].status = "pending"
           /\ complaints[j].status = "pending"
           /\ complaints[i].officer_id = requests[1].selected_officer
           /\ complaints[j].officer_id = requests[1].selected_officer
           /\ first.ret = requests[1].selected_officer
           /\ second.ret # first.ret

\* ------------------------------------------------ severity, by text and age
\* the hours unresolved the score of a submitted text is compared at
SeverityHours == {0, 1, 42, 100, 167, 168, 169, 336}

\* C27: for the text of every complaint, calculate_severity_score does not
\* fall as hours_unresolved grows, is the same at every hours_unresolved of
\* 168 or more, is the score at zero hours plus the time weight 0.2 cut at
\* 1.0 from 168 hours on, and lies in [0, 1].
C27_SeverityGrowsWithAgeUpToAWeek ==
    \A i \in Ids :
       LET text == complaints[i].description
       IN  /\ \A h1, h2 \in SeverityHours :
                 h1 <= h2 => calculate_severity_score(text, h1)
                                <= calculate_severity_score(text, h2)
           /\ \A h \in SeverityHours :
                 /\ calculate_severity_score(text, h) \in 0..1000
                 /\ h >= 168
                       => calculate_severity_score(text, h)
                             = Min(calculate_severity_score(text, 0) + 200, 1000)

\* a text was submitted whose score rises from 0 to 100 hours, rises again
\* to 168 hours and stays there
C27_RisesThenStays ==
    /\ op.name = "create_complaint"
    /\ \E i \in Ids :
          LET text == complaints[i].description
          IN  /\ "gas leak" \in text
              /\ calculate_severity_score(text, 0)
                    < calculate_severity_score(text, 100)
              /\ calculate_severity_score(text, 100)
                    < calculate_severity_score(text, 168)
              /\ calculate_severity_score(text, 168)
                    = calculate_severity_score(text, 336)

\* C30: the severity process_complaint gives at submission is at most 0.51
\* and the priority it gives is low or medium, for every text and every
\* declared category, a text with a critical keyword included.
C30_SubmissionAtMostMedium ==
    \A i \in Ids :
       /\ complaints[i].severity_score <= 510
       /\ complaints[i].priority \in {"low", "medium"}
       /\ \A category \in AICategories :
             LET ai_result == process_complaint(complaints[i].description,
                                                category)
             IN  /\ ai_result.severity_score <= 510
                 /\ ai_result.priority \in {"low", "medium"}

\* a text with a critical keyword was submitted and got 0.51 and medium
C30_CriticalKeywordMedium ==
    /\ op.name = "create_complaint"
    /\ \E i \in Ids :
          /\ "gas leak" \in complaints[i].description
          /\ calculate_keyword_urgency(complaints[i].description)
                = [num |-> 1, den |-> 1]
          /\ complaints[i].severity_score = 510
          /\ complaints[i].priority = "medium"

\* ----------------------------------------- escalation in the course of time
\* The complaints of InitPri under the clock and the periodic job alone: the
\* clock keeps advancing up to the last of PriTimes, and a
\* run_escalation_check that has a complaint to escalate is not put off for
\* ever.
TickOn ==
    \E t \in PriTimes : t > now /\ Tick(t - now)

NextLive ==
    \/ TickOn
    \/ RunEscalationCheck

SpecLive ==
    /\ InitPri
    /\ [][NextLive]_vars
    /\ WF_vars(TickOn)
    /\ WF_vars(RunEscalationCheck)

\* C29: with the clock advancing and run_escalation_check run again and
\* again, a complaint whose status is pending or in_progress for ever comes
\* to escalation level 2, whatever its priority.
C29_OpenComplaintsReachLevelTwo ==
    \A i \in 1..MaxPriComplaints :
       [](complaints[i].status \in {"pending", "in_progress"})
          => <>(complaints[i].escalation_level = 2)

\* run_escalation_check has brought a complaint of priority low that is in
\* progress to level 2
C29_LowInProgressAtLevelTwo ==
    /\ op.name = "run_escalation_check"
    /\ op.ret = 1
    /\ \E i \in Ids :
          /\ complaints[i].priority = "low"
          /\ complaints[i].status = "in_progress"
          /\ complaints[i].escalation_level = 2

====
